---- MODULE Spec2Model ----
(***************************************************************************)
(* Session lifecycle of the HTTP gateway of mobile-mcp (src/src/index.ts,  *)
(* startHttpServer).  The state is the closure of startHttpServer: the     *)
(* Session Table `streamableTransports`, the legacy slot `sseTransport`,   *)
(* the single Protocol Engine `server` and the transport objects the       *)
(* handlers create.  Every async handler is cut at its `await`s: the code  *)
(* between two awaits is one action, and the handlers of different         *)
(* requests interleave at these points.                                    *)
(*                                                                         *)
(* The transports and the Protocol Engine are objects of the MCP SDK; only *)
(* the part of their behaviour the handlers rely on is modelled, at the    *)
(* call that triggers it (handleRequest, close, connect).                  *)
(***************************************************************************)
EXTENDS Integers, Sequences, FiniteSets, Bags, TLC

\* ---------------------------------------------------------------- bounds
\* Transport objects created during a run (every handshake POST and every
\* GET /sse creates one) when the /mcp routes are installed.
MaxTransports == 2
\* Transport objects created during a run of the legacy-only server.
MaxLegacy == 3
\* Handlers suspended at an await at the same time.
MaxInFlight == 2

\* ----------------------------------------------------- values of the model
\* Values of the mcp-session-id header (index.ts:49).  A UUID issued by
\* randomUUID is a number in 1..MaxTransports; the other values are the
\* header being absent, a name that Object.prototype defines
\* ("constructor") and an arbitrary string that is no UUID.
NoHeader == 0
ProtoKey == -1
BogusId == -2

\* The transport-mode selector of startHttpServer (index.ts:12).
TransportTypes == {"sse", "streamable", "both"}

Uuids == 1..MaxTransports
HeaderValues == {NoHeader, ProtoKey, BogusId} \cup Uuids

\* Result of indexing the table: a transport (> 0), undefined, or the
\* function inherited from Object.prototype.
Undefined == 0
ProtoObject == -1

\* Request bodies: an initialize request or any other JSON-RPC message.
Bodies == {"initialize", "other"}

\* JSON-RPC error codes written by the handlers.
InvalidSessionCode == -32000
InternalErrorCode == -32603

VARIABLES
    transportType,          \* index.ts:12, fixed at startup
    transports,             \* the transport objects created so far
    streamableTransports,   \* index.ts:43, the Session Table
    sseTransport,           \* index.ts:40, the legacy singleton slot
    serverTransport,        \* server._transport of the one Protocol Engine
    uuidCount,              \* number of identifiers randomUUID has returned
    inflight,               \* bag of the handlers suspended at an await
    exposed,                \* session ids sent to a client in a response
    last                    \* the request that completed last and its answer

vars == <<transportType, transports, streamableTransports, sseTransport,
          serverTransport, uuidCount, inflight, exposed, last>>

\* The suspended handlers, and whether one more may be suspended.
Handlers == BagToSet(inflight)
Free == BagCardinality(inflight) < MaxInFlight
Suspend(r) == inflight (+) SetToBag({r})
Resume(r) == inflight (-) SetToBag({r})

\* A startup that installs the legacy routes whatever the mode.
SseRoutesInEveryMode == TRUE

\* Values of the --transport option: the three the help text names, some
\* other text and the empty text.
TransportOptions == {"sse", "streamable", "both", "http", ""}

\* Lines 218-220: the mode that main passes to startHttpServer.
transportTypeFor(option) ==
    IF option = "sse" THEN "sse"
    ELSE IF option = "streamable" THEN "streamable"
    ELSE "both"

\* index.ts:46 and index.ts:145: the routes installed at startup.
StreamableRoutes == transportType \in {"streamable", "both"}
SseRoutes == transportType \in {"sse", "both"}

\* A handler may create a transport while the run's bound allows one.
MayCreate ==
    Len(transports) < (IF transportType = "sse" THEN MaxLegacy
                       ELSE MaxTransports)
TIds == 1..Len(transports)

\* ---------------------------------------------------------- pure helpers

\* JavaScript truthiness of the header value: undefined is falsy (and so
\* is "", which takes the paths of the absent header everywhere).
Truthy(sid) == sid # NoHeader

\* Own keys of the Session Table.
OwnKeys(tbl) == {k \in DOMAIN tbl : tbl[k] # Undefined}

\* A lookup that takes the first entry of the table, whatever the key.
LookupFirstEntry(tbl, sid) ==
    IF OwnKeys(tbl) # {}
    THEN tbl[CHOOSE k \in OwnKeys(tbl) : \A j \in OwnKeys(tbl) : k <= j]
    ELSE Undefined

\* streamableTransports[sessionId]: an own property, else the property
\* of Object.prototype the key names, else undefined.
Lookup(tbl, sid) ==
    IF sid \in DOMAIN tbl /\ tbl[sid] # Undefined THEN tbl[sid]
    ELSE IF sid = ProtoKey THEN ProtoObject
    ELSE Undefined

\* A generator that returns the same value on every call.
randomUUIDRepeating(n) == 1

\* crypto.randomUUID(): a value that was not returned before (two version-4
\* UUIDs are taken never to collide); n is the number of values returned so
\* far.
randomUUID(n) == n + 1

\* A callback that stores the transport under a key of its own choosing.
onsessioninitializedWrongKey(tbl, id, t) ==
    [tbl EXCEPT ![CHOOSE k \in DOMAIN tbl : \A j \in DOMAIN tbl : k <= j] = t]

\* A callback that forgets to store the transport.
onsessioninitializedDropped(tbl, id, t) == tbl

\* onsessioninitialized: streamableTransports[id] = transport.
onsessioninitialized(tbl, id, t) == [tbl EXCEPT ![id] = t]

\* A close handler that leaves the entry in place.
oncloseKeepsEntry(tbl, tr) == tbl

\* transport.onclose: delete streamableTransports[transport.sessionId]
\* when the transport has a session id.
onclose(tbl, tr) ==
    IF tr.sessionId # Undefined THEN [tbl EXCEPT ![tr.sessionId] = Undefined]
    ELSE tbl

\* server.connect(transport): the Protocol Engine takes the transport as
\* its current one (and chains its own close handler to transport.onclose).
connect(cur, t) == t

\* The Protocol Engine's close handler, run when ANY transport it was
\* connected to closes: it drops its current transport.
serverOnClose(cur) == Undefined

\* A constructor that enters the new transport in the table at once,
\* under the key of its number.
StreamableHTTPServerTransportRegistersEarly(tbl, t) ==
    IF t \in DOMAIN tbl THEN [tbl EXCEPT ![t] = t] ELSE tbl

\* new StreamableHTTPServerTransport({sessionIdGenerator,
\* onsessioninitialized}) (57-62): the generator and the callback are
\* kept for the initialize message; the table is not touched.
StreamableHTTPServerTransport(tbl, t) == tbl

NewTransport(kind) ==
    [kind |-> kind, sessionId |-> Undefined, initialized |-> FALSE,
     closed |-> FALSE]

\* The identifier sid belongs to a session that has been closed.
IsClosedId(sid) ==
    /\ sid \in Uuids
    /\ \E t \in TIds : transports[t].sessionId = sid /\ transports[t].closed

\* The identifier sid has been returned by randomUUID.
IsIssued(sid) == sid \in 1..uuidCount

McpRoutes == {"POST /mcp", "GET /mcp", "DELETE /mcp"}

\* What a call into the SDK that has taken the request does to the
\* handler that awaits it: it returns, or it throws after the response
\* headers are sent.  The throws before the headers are sent are those
\* the handlers run into by themselves: the lookup of a prototype key, a
\* closed legacy transport, a connect that fails.
Faults == {"none", "thrown_after_headers"}

\* The record of a completed request.
Answer(route, hdr, body, resp, code, t, issued, wasClosed) ==
    [route |-> route, hdr |-> hdr, body |-> body, resp |-> resp,
     code |-> code, t |-> t, issuedAtArrival |-> issued,
     closedAtArrival |-> wasClosed, fault |-> "none"]

\* A catch block that writes its 500 without looking at res.headersSent:
\* on a response whose headers are sent the write throws inside the
\* catch block, the handler's promise is rejected with nobody to handle
\* it, and the process ends.
CatchAlwaysWrites(ans, headersSent) ==
    [ans EXCEPT !.fault = IF headersSent THEN "thrown_after_headers"
                          ELSE "thrown",
                !.resp = IF headersSent THEN "crash"
                         ELSE IF ans.route \in McpRoutes
                         THEN "internal_error" ELSE "sse_internal_error",
                !.code = IF ~headersSent /\ ans.route \in McpRoutes
                         THEN InternalErrorCode ELSE 0]

\* The catch blocks (81-90, 106-115, 131-140, 153-157, 173-178) of the
\* handler that was about to give the answer ans: the error is logged;
\* with the headers not yet sent the answer is 500, on /mcp with the
\* JSON-RPC code -32603 and on /sse with {error: "Internal server
\* error"}; with the headers sent nothing more is written.
Catch(ans, headersSent) ==
    [ans EXCEPT !.fault = IF headersSent THEN "thrown_after_headers"
                          ELSE "thrown",
                !.resp = IF headersSent THEN "dropped"
                         ELSE IF ans.route \in McpRoutes
                         THEN "internal_error" ELSE "sse_internal_error",
                !.code = IF ~headersSent /\ ans.route \in McpRoutes
                         THEN InternalErrorCode ELSE 0]

\* The answer ans of a handler whose SDK call behaves as fault says.
Handled(ans, fault) ==
    IF fault = "none" THEN ans ELSE Catch(ans, fault = "thrown_after_headers")

InvalidSession(route, hdr, body) ==
    Answer(route, hdr, body, "invalid_session", InvalidSessionCode, 0,
           IsIssued(hdr), IsClosedId(hdr))

\* A TypeError thrown by the handler itself, before any header is sent.
InternalError(route, hdr, body) ==
    Catch(Answer(route, hdr, body, "none", 0, 0,
                 IsIssued(hdr), IsClosedId(hdr)), FALSE)

Init ==
    /\ transportType \in {transportTypeFor(o) : o \in TransportOptions}
    /\ transports = <<>>
    /\ streamableTransports = [k \in Uuids |-> Undefined]
    /\ sseTransport = Undefined
    /\ serverTransport = Undefined
    /\ uuidCount = 0
    /\ inflight = EmptyBag
    /\ exposed = {}
    /\ last = Answer("none", NoHeader, "other", "none", 0, 0, FALSE, FALSE)


\* ------------------------------------------------------- POST /mcp (47-91)

\* Lines 52-54 and 80: the header names an entry (own or inherited).  An
\* inherited value has no handleRequest, so line 80 throws a TypeError and
\* the catch block (81-90) answers 500 / -32603.  A transport gets the
\* request: it refuses an initialize on an initialized session and a
\* header that is not its own session id; everything else goes to the
\* Protocol Engine.
PostMcpReuse(hdr, body, fault) ==
    /\ StreamableRoutes
    /\ Truthy(hdr)
    /\ Lookup(streamableTransports, hdr) # Undefined
    /\ LET v == Lookup(streamableTransports, hdr) IN
       last' = IF v = ProtoObject THEN InternalError("POST /mcp", hdr, body)
               ELSE IF body = "initialize"
                       \/ ~transports[v].initialized
                       \/ transports[v].sessionId # hdr
               THEN Answer("POST /mcp", hdr, body, "transport_error", 0, v,
                           IsIssued(hdr), IsClosedId(hdr))
               ELSE Handled(Answer("POST /mcp", hdr, body, "forwarded", 0, v,
                                   IsIssued(hdr), IsClosedId(hdr)), fault)
    /\ UNCHANGED <<transportType, transports, streamableTransports,
                   sseTransport, serverTransport, uuidCount, inflight,
                   exposed>>

\* Lines 55-70: no (truthy) session id and an initialize body.  A new
\* transport is created and connected to the one Protocol Engine; the
\* handler is suspended at `await server.connect(transport)`.
PostMcpHandshake(hdr, body) ==
    /\ StreamableRoutes
    /\ ~(Truthy(hdr) /\ Lookup(streamableTransports, hdr) # Undefined)
    /\ ~Truthy(hdr)
    /\ body = "initialize"
    /\ Free
    /\ MayCreate
    /\ LET t == Len(transports) + 1 IN
       /\ transports' = Append(transports, NewTransport("streamable"))
       /\ streamableTransports' =
              StreamableHTTPServerTransport(streamableTransports, t)
       /\ serverTransport' = connect(serverTransport, t)
       /\ inflight' = Suspend(
              [route |-> "POST /mcp", pc |-> "await_connect", hdr |-> hdr,
               body |-> body, t |-> t,
               issuedAtArrival |-> IsIssued(hdr),
               closedAtArrival |-> IsClosedId(hdr)])
    /\ UNCHANGED <<transportType, sseTransport, uuidCount, exposed, last>>

\* Line 70 throws: the engine could not be bound to the new transport.
\* The handler goes to its catch block (81-90) before line 80, so the
\* transport never sees the initialize message, draws no id and runs no
\* callback; nothing closes it either.
PostMcpConnectFails(h) ==
    /\ h.route = "POST /mcp"
    /\ h.pc = "await_connect"
    /\ last' = Catch(Answer("POST /mcp", h.hdr, h.body, "none", 0, h.t,
                            h.issuedAtArrival, h.closedAtArrival), FALSE)
    /\ inflight' = Resume(h)
    /\ UNCHANGED <<transportType, transports, streamableTransports,
                   sseTransport, serverTransport, uuidCount, exposed>>

\* Lines 71-78: every other POST is answered 400 / -32000.
PostMcpReject(hdr, body) ==
    /\ StreamableRoutes
    /\ ~(Truthy(hdr) /\ Lookup(streamableTransports, hdr) # Undefined)
    /\ ~(~Truthy(hdr) /\ body = "initialize")
    /\ last' = InvalidSession("POST /mcp", hdr, body)
    /\ UNCHANGED <<transportType, transports, streamableTransports,
                   sseTransport, serverTransport, uuidCount, inflight,
                   exposed>>

\* Line 80 of a handshake, up to the transport's await on the
\* onsessioninitialized callback: the transport draws its session id from
\* sessionIdGenerator (58), marks itself initialized and runs the callback
\* of lines 59-61.
PostMcpInitialize(h) ==
    /\ h.route = "POST /mcp"
    /\ h.pc = "await_connect"
    /\ LET id == randomUUID(uuidCount) IN
       /\ uuidCount' = uuidCount + 1
       /\ transports' = [transports EXCEPT ![h.t].sessionId = id,
                                           ![h.t].initialized = TRUE]
       /\ streamableTransports' =
              onsessioninitialized(streamableTransports, id, h.t)
    /\ inflight' = Resume(h) (+)
                       SetToBag({[h EXCEPT !.pc = "await_registered"]})
    /\ UNCHANGED <<transportType, sseTransport, serverTransport, exposed,
                   last>>

\* Rest of line 80 of a handshake: the transport writes the response
\* headers, the mcp-session-id header among them, and gives the initialize
\* message to the Protocol Engine.
PostMcpRespond(h) ==
    /\ h.route = "POST /mcp"
    /\ h.pc = "await_registered"
    /\ LET t == h.t IN
       /\ exposed' = exposed \cup {transports[t].sessionId}
       /\ last' = Answer("POST /mcp", h.hdr, h.body,
                         "initialized", 0, t,
                         h.issuedAtArrival,
                         h.closedAtArrival)
    /\ inflight' = Resume(h)
    /\ UNCHANGED <<transportType, transports, streamableTransports,
                   sseTransport, serverTransport, uuidCount>>

\* -------------------------------------------------------- GET /mcp (93-116)

\* Lines 95-105: no entry, 400 / -32000.
GetMcpReject(hdr) ==
    /\ StreamableRoutes
    /\ ~Truthy(hdr) \/ Lookup(streamableTransports, hdr) = Undefined
    /\ last' = InvalidSession("GET /mcp", hdr, "other")
    /\ UNCHANGED <<transportType, transports, streamableTransports,
                   sseTransport, serverTransport, uuidCount, inflight,
                   exposed>>

\* Lines 96-98: an entry.  An inherited value throws at line 98 (catch,
\* 106-115); a transport takes the request and opens a server-to-client
\* stream on the response.
GetMcpForward(hdr, fault) ==
    /\ StreamableRoutes
    /\ Truthy(hdr)
    /\ Lookup(streamableTransports, hdr) # Undefined
    /\ LET v == Lookup(streamableTransports, hdr) IN
       last' = IF v = ProtoObject THEN InternalError("GET /mcp", hdr, "other")
               ELSE IF transports[v].sessionId # hdr
               THEN Answer("GET /mcp", hdr, "other", "transport_error", 0, v,
                           IsIssued(hdr), IsClosedId(hdr))
               ELSE Handled(Answer("GET /mcp", hdr, "other", "stream", 0, v,
                                   IsIssued(hdr), IsClosedId(hdr)), fault)
    /\ UNCHANGED <<transportType, transports, streamableTransports,
                   sseTransport, serverTransport, uuidCount, inflight,
                   exposed>>

\* ---------------------------------------------------- DELETE /mcp (118-141)

\* Lines 120-130: no entry, 400 / -32000; an inherited value throws at
\* line 123 (catch, 131-140).
DeleteMcpReject(hdr) ==
    /\ StreamableRoutes
    /\ LET v == IF Truthy(hdr) THEN Lookup(streamableTransports, hdr)
                ELSE Undefined IN
       /\ v \in {Undefined, ProtoObject}
       /\ last' = IF v = ProtoObject
                  THEN InternalError("DELETE /mcp", hdr, "other")
                  ELSE InvalidSession("DELETE /mcp", hdr, "other")
    /\ UNCHANGED <<transportType, transports, streamableTransports,
                   sseTransport, serverTransport, uuidCount, inflight,
                   exposed>>

\* Line 123 on a transport: the transport closes itself, which ends its
\* streams and runs transport.onclose: the handler of lines 64-68 and then
\* the Protocol Engine's.  The handler is suspended at the transport's
\* `await this.close()`.
DeleteMcpClose(hdr) ==
    /\ StreamableRoutes
    /\ Truthy(hdr)
    /\ Lookup(streamableTransports, hdr) \notin {Undefined, ProtoObject}
    /\ Free
    /\ LET t == Lookup(streamableTransports, hdr) IN
       /\ transports' = [transports EXCEPT ![t].closed = TRUE]
       /\ streamableTransports' = onclose(streamableTransports, transports[t])
       /\ serverTransport' = serverOnClose(serverTransport)
       /\ inflight' = Suspend(
              [route |-> "DELETE /mcp", pc |-> "await_close", hdr |-> hdr,
               body |-> "other", t |-> t,
               issuedAtArrival |-> IsIssued(hdr),
               closedAtArrival |-> IsClosedId(hdr)])
    /\ UNCHANGED <<transportType, sseTransport, uuidCount, exposed, last>>

\* The transport answers the DELETE with 200.
DeleteMcpRespond(h, fault) ==
    /\ h.route = "DELETE /mcp"
    /\ h.pc = "await_close"
    /\ last' = Handled(Answer("DELETE /mcp", h.hdr, "other", "closed", 0,
                              h.t, h.issuedAtArrival,
                              h.closedAtArrival), fault)
    /\ inflight' = Resume(h)
    /\ UNCHANGED <<transportType, transports, streamableTransports,
                   sseTransport, serverTransport, uuidCount, exposed>>


\* ------------------------------------------------------- GET /sse (161-179)

\* SSEServerTransport.close(): the response stream is ended and onclose
\* runs, on every call.
CloseSse(trs, t) == [trs EXCEPT ![t].closed = TRUE]

\* Lines 163-168 with a transport in the slot: it is closed (which runs the
\* Protocol Engine's close handler) and the handler is suspended at
\* `await sseTransport.close()`.
GetSseClose ==
    /\ SseRoutes
    /\ sseTransport # Undefined
    /\ Free
    /\ transports' = CloseSse(transports, sseTransport)
    /\ serverTransport' = serverOnClose(serverTransport)
    /\ inflight' = Suspend(
           [route |-> "GET /sse", pc |-> "await_close", hdr |-> NoHeader,
            body |-> "other", t |-> sseTransport,
            issuedAtArrival |-> FALSE, closedAtArrival |-> FALSE])
    /\ UNCHANGED <<transportType, streamableTransports, sseTransport,
                   uuidCount, exposed, last>>

\* Lines 171-172: a new transport on this response is stored in the slot
\* and connected to the Protocol Engine, which starts it: the transport
\* writes the stream's head and its endpoint event.  The handler is
\* suspended at `await server.connect(sseTransport)`.
OpenSse(others) ==
    /\ MayCreate
    /\ LET t == Len(transports) + 1 IN
       /\ transports' = Append(transports, NewTransport("sse"))
       /\ sseTransport' = t
       /\ serverTransport' = connect(serverTransport, t)
       /\ inflight' = others (+) SetToBag({
              [route |-> "GET /sse", pc |-> "await_connect", hdr |-> NoHeader,
               body |-> "other", t |-> t,
               issuedAtArrival |-> FALSE, closedAtArrival |-> FALSE]})
    /\ UNCHANGED <<transportType, streamableTransports, uuidCount, exposed,
                   last>>

\* Lines 163-172 with an empty slot: nothing to close, no await before 171.
GetSseFirst ==
    /\ SseRoutes
    /\ sseTransport = Undefined
    /\ Free
    /\ OpenSse(inflight)

\* Lines 171-172 after the await of line 168.
GetSseAfterClose(h) ==
    /\ h.route = "GET /sse"
    /\ h.pc = "await_close"
    /\ OpenSse(Resume(h))

\* The handler returns after the await of line 172; the stream stays open.
GetSseDone(h, fault) ==
    /\ h.route = "GET /sse"
    /\ h.pc = "await_connect"
    /\ last' = Handled(Answer("GET /sse", NoHeader, "other", "sse_stream", 0,
                              h.t, FALSE, FALSE), fault)
    /\ inflight' = Resume(h)
    /\ UNCHANGED <<transportType, transports, streamableTransports,
                   sseTransport, serverTransport, uuidCount, exposed>>

\* ------------------------------------------------------ POST /sse (146-159)

\* A handler that never looks at the slot and always refuses.
PostSseAnswerAlwaysRefuses(body) ==
    Answer("POST /sse", NoHeader, body, "no_sse", 0, 0, FALSE, FALSE)

\* Lines 148-152: without a transport in the slot, 400; with one, the
\* message is given to it.  A transport whose stream is gone throws, and
\* the catch block (153-157) answers 500.
PostSseAnswer(body) ==
    IF sseTransport = Undefined
    THEN Answer("POST /sse", NoHeader, body, "no_sse", 0, 0, FALSE, FALSE)
    ELSE IF transports[sseTransport].closed
    THEN Catch(Answer("POST /sse", NoHeader, body, "none", 0,
                      sseTransport, FALSE, FALSE), FALSE)
    ELSE Answer("POST /sse", NoHeader, body, "forwarded", 0, sseTransport,
                FALSE, FALSE)

PostSse(body, fault) ==
    /\ SseRoutes
    /\ last' = IF PostSseAnswer(body).resp = "forwarded"
               THEN Handled(PostSseAnswer(body), fault)
               ELSE PostSseAnswer(body)
    /\ UNCHANGED <<transportType, transports, streamableTransports,
                   sseTransport, serverTransport, uuidCount, inflight,
                   exposed>>

\* ------------------------------------------------------ client disconnect

\* The client of a legacy stream drops the connection: the transport
\* forgets its response and runs onclose, which is the Protocol Engine's
\* handler (the gateway sets none, 171-172).  No gateway code runs.  (A
\* streamable transport runs no onclose when a client drops a stream.)
ClientDisconnect(t) ==
    /\ transports[t].kind = "sse"
    /\ ~transports[t].closed
    /\ transports' = CloseSse(transports, t)
    /\ serverTransport' = serverOnClose(serverTransport)
    /\ UNCHANGED <<transportType, streamableTransports, sseTransport,
                   uuidCount, inflight, exposed, last>>

\* ------------------------------------------------------ GET /health (33-35)

\* A health check that reports on the sessions instead of the process.
HealthAnswerNeedsSession ==
    Answer("GET /health", NoHeader, "other",
           IF sseTransport = Undefined /\ OwnKeys(streamableTransports) = {}
           THEN "unavailable" ELSE "health_ok", 0, 0, FALSE, FALSE)

\* res.json({ status: "ok" }): 200 with that body, whatever the state.
HealthAnswer ==
    Answer("GET /health", NoHeader, "other", "health_ok", 0, 0, FALSE, FALSE)

\* The route is registered before and outside the transport-mode guards.
Health ==
    /\ last' = HealthAnswer
    /\ UNCHANGED <<transportType, transports, streamableTransports,
                   sseTransport, serverTransport, uuidCount, inflight,
                   exposed>>

\* ------------------------------------------------------------- the system

\* The process runs: no handler's promise was rejected with nobody to
\* handle it.
Alive == last.resp # "crash"

NextMcp ==
    \/ \E hdr \in HeaderValues, body \in Bodies, fault \in Faults :
           PostMcpReuse(hdr, body, fault)
    \/ \E hdr \in HeaderValues, body \in Bodies : PostMcpHandshake(hdr, body)
    \/ \E hdr \in HeaderValues, body \in Bodies : PostMcpReject(hdr, body)
    \/ \E h \in Handlers : PostMcpConnectFails(h)
    \/ \E h \in Handlers : PostMcpInitialize(h)
    \/ \E h \in Handlers : PostMcpRespond(h)
    \/ \E hdr \in HeaderValues : GetMcpReject(hdr)
    \/ \E hdr \in HeaderValues, fault \in Faults : GetMcpForward(hdr, fault)
    \/ \E hdr \in HeaderValues : DeleteMcpReject(hdr)
    \/ \E hdr \in HeaderValues : DeleteMcpClose(hdr)
    \/ \E h \in Handlers, fault \in Faults : DeleteMcpRespond(h, fault)

NextSse ==
    \/ GetSseClose
    \/ GetSseFirst
    \/ \E h \in Handlers : GetSseAfterClose(h)
    \/ \E h \in Handlers, fault \in Faults : GetSseDone(h, fault)
    \/ \E body \in Bodies, fault \in Faults : PostSse(body, fault)

Next ==
    \/ NextMcp
    \/ NextSse
    \/ \E t \in TIds : ClientDisconnect(t)
    \/ Health

\* The server in any of its three modes.
Spec == Init /\ [][Next]_vars

TypeOK ==
    /\ transportType \in TransportTypes
    /\ Len(transports) <= MaxTransports + MaxLegacy
    /\ sseTransport \in {Undefined} \cup TIds
    /\ serverTransport \in {Undefined} \cup TIds
    /\ uuidCount \in 0..MaxTransports
    /\ exposed \subseteq Uuids

\* Numbers of the transports that are sessions in the sense of the
\* lifecycle: a streamable transport from the completion of its handshake
\* to its close, a legacy transport from its creation to its close.
LiveStreamable(t) ==
    /\ transports[t].kind = "streamable"
    /\ transports[t].initialized
    /\ ~transports[t].closed

LiveLegacy(t) == transports[t].kind = "sse" /\ ~transports[t].closed

Live(t) == LiveStreamable(t) \/ LiveLegacy(t)

\* ------------------------------------------- the CORS middleware (18-30)

\* The largest number of comma-separated entries in ALLOWED_ORIGINS.
MaxEntries == 2

\* Texts of origins and allow-list entries: two origins, the wildcard and
\* the empty string (an empty Origin header, or the entry that a trailing
\* comma leaves in the list).
OriginTexts == {"", "*", "https://a.example", "https://b.example"}

\* No Origin header on the request (req.headers.origin is undefined).
NoOrigin == "(absent)"

\* No Access-Control-Allow-Origin header on the response.
NoAcao == "(none)"

Origins == {NoOrigin, "", "https://a.example", "https://b.example"}

Methods == {"GET", "POST", "DELETE", "OPTIONS"}

Paths == {"/health", "/mcp", "/sse", "/other"}

\* ALLOWED_ORIGINS is not in the environment.
Unset == <<>>

\* One piece of ALLOWED_ORIGINS between two commas: a text with or without
\* blanks around it.
RawEntries == [text : OriginTexts, padded : BOOLEAN]

\* The values of process.env.ALLOWED_ORIGINS after split(","): a string,
\* even the empty one, splits into one piece at least.
EnvValues ==
    {Unset} \cup UNION {[1..n -> RawEntries] : n \in 1..MaxEntries}

\* String.prototype.trim(): the blanks around the text are removed.
trim(entry) == entry.text

\* Line 18: the pieces of ALLOWED_ORIGINS, trimmed, or ["*"].
allowedOrigins(env) ==
    IF env = Unset THEN <<"*">> ELSE [i \in DOMAIN env |-> trim(env[i])]

\* Array.prototype.includes.
includes(list, x) == \E i \in DOMAIN list : list[i] = x

\* `origin` as a condition: undefined and "" are falsy.
TruthyOrigin(origin) == origin \notin {NoOrigin, ""}

\* A guard that permits every request.
AccessControlAllowOriginForAll(allowed, origin) ==
    IF TruthyOrigin(origin) THEN origin ELSE "*"

\* Lines 21-23: the value of the Access-Control-Allow-Origin header.
AccessControlAllowOrigin(allowed, origin) ==
    IF \/ includes(allowed, "*")
       \/ TruthyOrigin(origin) /\ includes(allowed, origin)
    THEN (IF TruthyOrigin(origin) THEN origin ELSE "*")
    ELSE NoAcao

\* Lines 19-30: the middleware sets the CORS headers, answers OPTIONS
\* with 204 and no body itself, and hands every other request on.
CorsResponse(req) ==
    [acao |-> AccessControlAllowOrigin(allowedOrigins(req.env), req.origin),
     allowMethods |-> "GET, POST, DELETE, OPTIONS",
     allowHeaders |-> "Content-Type, mcp-session-id",
     status |-> IF req.method = "OPTIONS" THEN "204" ELSE "(none)",
     next |-> req.method # "OPTIONS"]

CorsRequests ==
    [env : EnvValues, method : Methods, path : Paths, origin : Origins]

\* A request has arrived at a gateway that was started with req.env.
InitCors ==
    /\ transportType \in TransportTypes
    /\ transports = <<>>
    /\ streamableTransports = [k \in Uuids |-> Undefined]
    /\ sseTransport = Undefined
    /\ serverTransport = Undefined
    /\ uuidCount = 0
    /\ inflight = EmptyBag
    /\ exposed = {}
    /\ last \in [stage : {"arrived"}, req : CorsRequests]

\* The middleware runs on the request.
CorsMiddleware ==
    /\ last.stage = "arrived"
    /\ last' = [stage |-> "answered", req |-> last.req,
                res |-> CorsResponse(last.req)]
    /\ UNCHANGED <<transportType, transports, streamableTransports,
                   sseTransport, serverTransport, uuidCount, inflight,
                   exposed>>

NextCors == CorsMiddleware

\* The Origin Guard on one request.
SpecCors == InitCors /\ [][NextCors]_vars

\* ------------------------------------------- the worker (worker.ts 8-151)

MethodNotFoundCode == -32601

\* No sessionId parameter in the URL (searchParams.get gives null).
NoParam == 0

\* A sessionId parameter with the empty text.
EmptyParam == -3

\* The sessionId parameter of the URL: none, empty, a text that is no
\* UUID, or one of the UUIDs that GET /sse hands out in a run.
WorkerSessionIds == {NoParam, EmptyParam, BogusId} \cup Uuids

\* A JSON-RPC message without an id member.
NoId == 0

\* A JSON object without a method member.
NoMethod == "(absent)"

\* Request bodies: text that is not JSON, the JSON value null, and JSON
\* objects with or without a method and an id.
WorkerBodies ==
    [json : {"malformed", "null"}, method : {NoMethod}, id : {NoId}]
    \cup [json : {"object"},
          method : {"initialize", "tools/list", "tools/call", NoMethod},
          id : {NoId, 1, 2}]

WorkerRequests ==
    [path : {"/health", "/sse", "/other"}, method : Methods,
     sessionId : WorkerSessionIds, body : WorkerBodies]

\* JSON.stringify leaves out a member whose value is undefined.
WithId(id, members) ==
    IF id = NoId THEN members ELSE [x \in {"id"} |-> id] @@ members

\* A reply that carries no id at all.
responseDataWithoutId(body) ==
    IF body.method = "initialize"
    THEN [jsonrpc |-> "2.0",
          result |-> [protocolVersion |-> "2024-11-05",
                      capabilities |-> [tools |-> <<>>],
                      serverInfo |-> [name |-> "mobile-mcp",
                                      version |-> "0.0.1"]]]
    ELSE [jsonrpc |-> "2.0", result |-> [tools |-> <<>>]]

\* Lines 77-109: the reply to a message.
responseData(body) ==
    IF body.method = "initialize"
    THEN WithId(body.id,
             [jsonrpc |-> "2.0",
              result |-> [protocolVersion |-> "2024-11-05",
                          capabilities |-> [tools |-> <<>>],
                          serverInfo |-> [name |-> "mobile-mcp",
                                          version |-> "0.0.1"]]])
    ELSE IF body.method = "tools/list"
    THEN WithId(body.id, [jsonrpc |-> "2.0", result |-> [tools |-> <<>>]])
    ELSE WithId(body.id,
             [jsonrpc |-> "2.0",
              error |-> [code |-> MethodNotFoundCode,
                         message |-> "requires Node.js environment"]])

\* A worker that remembers the ids it has handed out (those below uuid)
\* and answers a POST /sse only for one of them.
fetchRemembersSessions(req, uuid) ==
    IF req.path = "/sse" /\ req.method = "POST"
    THEN IF req.sessionId \in 1..(uuid - 1) /\ req.body.json = "object"
         THEN [status |-> 200, kind |-> "event-stream",
               events |-> <<[event |-> "message",
                             data |-> responseData(req.body)]>>,
               closed |-> TRUE]
         ELSE [status |-> 400, kind |-> "json",
               data |-> [error |-> "Unknown sessionId"]]
    ELSE [status |-> 200, kind |-> "text"]

\* Lines 10-149: the response to req; uuid is what crypto.randomUUID()
\* returns if it is called.  The branches are tried in the order of the
\* code: /health, GET /sse, POST /sse, OPTIONS, everything else.
fetch(req, uuid) ==
    IF req.path = "/health"
    THEN [status |-> 200, kind |-> "json", data |-> [status |-> "ok"]]
    ELSE IF req.path = "/sse" /\ req.method = "GET"
    THEN [status |-> 200, kind |-> "event-stream",
          events |-> <<[event |-> "endpoint", sessionId |-> uuid],
                       [event |-> "message",
                        method |-> "notifications/initialized"]>>,
          closed |-> TRUE]
    ELSE IF req.path = "/sse" /\ req.method = "POST"
    THEN IF req.sessionId \in {NoParam, EmptyParam}
         THEN [status |-> 400, kind |-> "json",
               data |-> [error |-> "Missing sessionId"]]
         ELSE IF req.body.json # "object"
         THEN [status |-> 400, kind |-> "json",
               data |-> [error |-> "error.message"]]
         ELSE [status |-> 200, kind |-> "event-stream",
               events |-> <<[event |-> "message",
                             data |-> responseData(req.body)]>>,
               closed |-> TRUE]
    ELSE IF req.method = "OPTIONS"
    THEN [status |-> 204, kind |-> "empty"]
    ELSE [status |-> 200, kind |-> "text"]

\* A request has arrived at the worker, which has no transport option and
\* none of the gateway's state.
InitWorker ==
    /\ transportType = "both"
    /\ transports = <<>>
    /\ streamableTransports = [k \in Uuids |-> Undefined]
    /\ sseTransport = Undefined
    /\ serverTransport = Undefined
    /\ uuidCount = 0
    /\ inflight = EmptyBag
    /\ exposed = {}
    /\ last \in [stage : {"arrived"}, req : WorkerRequests]

\* The worker answers the request.
WorkerFetch ==
    /\ last.stage = "arrived"
    /\ last' = [stage |-> "answered", req |-> last.req,
                res |-> fetch(last.req, randomUUID(uuidCount))]
    /\ uuidCount' = IF last.req.path = "/sse" /\ last.req.method = "GET"
                    THEN uuidCount + 1 ELSE uuidCount
    /\ UNCHANGED <<transportType, transports, streamableTransports,
                   sseTransport, serverTransport, inflight, exposed>>

\* The next request arrives at the worker (a GET /sse only while the
\* run's bound on handed-out ids allows one more).
WorkerArrive(req) ==
    /\ last.stage = "answered"
    /\ (req.path = "/sse" /\ req.method = "GET") => uuidCount < MaxTransports
    /\ last' = [stage |-> "arrived", req |-> req]
    /\ UNCHANGED <<transportType, transports, streamableTransports,
                   sseTransport, serverTransport, uuidCount, inflight,
                   exposed>>

NextWorker ==
    \/ WorkerFetch
    \/ \E req \in WorkerRequests : WorkerArrive(req)

\* The worker on one request after another.
SpecWorker == InitWorker /\ [][NextWorker]_vars

\* ----------------------------- messages on their way through the engine

\* The largest number of messages that arrive in a run.
MaxMessages == 4

\* A gateway in mode "both" after a handshake on /mcp and a GET /sse: one
\* streamable session, registered under its id, and one legacy session in
\* the slot; no handler is suspended and no message has arrived.
InitOrder ==
    /\ transportType = "both"
    /\ transports =
           <<[kind |-> "streamable", sessionId |-> randomUUID(0),
              initialized |-> TRUE, closed |-> FALSE],
             [kind |-> "sse", sessionId |-> Undefined,
              initialized |-> FALSE, closed |-> FALSE]>>
    /\ streamableTransports =
           onsessioninitialized([k \in Uuids |-> Undefined], randomUUID(0), 1)
    /\ sseTransport = 2
    /\ serverTransport = connect(1, 2)
    /\ uuidCount = 1
    /\ inflight = EmptyBag
    /\ exposed = {randomUUID(0)}
    /\ last = [arrived |-> <<>>, responded |-> <<>>]

\* Lines 52-54 and 80 with a message for a registered session: the
\* transport keeps the response open and gives the message to the
\* Protocol Engine, which starts the request handler and returns; nothing
\* in the gateway waits for the messages that session sent before.
PostMcpMessage(hdr) ==
    /\ StreamableRoutes
    /\ Truthy(hdr)
    /\ Lookup(streamableTransports, hdr) \notin {Undefined, ProtoObject}
    /\ Free
    /\ Len(last.arrived) < MaxMessages
    /\ LET v == Lookup(streamableTransports, hdr)
           n == Len(last.arrived) + 1
       IN  /\ transports[v].initialized
           /\ transports[v].sessionId = hdr
           /\ inflight' = Suspend([route |-> "POST /mcp", pc |-> "engine",
                                   hdr |-> hdr, body |-> "other", t |-> v,
                                   n |-> n])
           /\ last' = [last EXCEPT !.arrived = Append(@, <<v, n>>)]
    /\ UNCHANGED <<transportType, transports, streamableTransports,
                   sseTransport, serverTransport, uuidCount, exposed>>

\* Lines 148-152 with an open transport in the slot: the transport
\* answers 202 and gives the message to the Protocol Engine; the reply
\* will go out on the session's stream.
PostSseMessage ==
    /\ SseRoutes
    /\ sseTransport # Undefined
    /\ ~transports[sseTransport].closed
    /\ Free
    /\ Len(last.arrived) < MaxMessages
    /\ LET n == Len(last.arrived) + 1 IN
       /\ inflight' = Suspend([route |-> "POST /sse", pc |-> "engine",
                               hdr |-> NoHeader, body |-> "other",
                               t |-> sseTransport, n |-> n])
       /\ last' = [last EXCEPT !.arrived = Append(@, <<sseTransport, n>>)]
    /\ UNCHANGED <<transportType, transports, streamableTransports,
                   sseTransport, serverTransport, uuidCount, exposed>>

\* The request handler of one of the messages the engine is working on
\* settles, and its reply is sent on the message's transport.  The
\* handlers run as independent promises and settle in any order.
EngineRespond(h) ==
    /\ h.pc = "engine"
    /\ inflight' = Resume(h)
    /\ last' = [last EXCEPT !.responded = Append(@, <<h.t, h.n>>)]
    /\ UNCHANGED <<transportType, transports, streamableTransports,
                   sseTransport, serverTransport, uuidCount, exposed>>

NextOrder ==
    \/ \E hdr \in HeaderValues : PostMcpMessage(hdr)
    \/ PostSseMessage
    \/ \E h \in Handlers : EngineRespond(h)

\* Messages of two sessions on their way through the gateway.
SpecOrder == InitOrder /\ [][NextOrder]_vars

\* ------------------------------------------------------------ properties

\* C1: a request on /mcp that carries a session id the server had not
\* issued is answered with the invalid-session error (code -32000).
C1NeverIssuedIsInvalidSession ==
    (/\ last.route \in McpRoutes
     /\ Truthy(last.hdr)
     /\ ~last.issuedAtArrival)
        => (last.resp = "invalid_session" /\ last.code = InvalidSessionCode)

\* C2: the id of a closed session is in the Session Table no more, and any
\* request that carries it is answered with invalid-session: no request
\* revives it and a second DELETE does not succeed.
C2ClosedIdStaysInvalid ==
    /\ \A s \in Uuids : IsClosedId(s) => s \notin OwnKeys(streamableTransports)
    /\ last.closedAtArrival =>
           (last.resp = "invalid_session" /\ last.code = InvalidSessionCode)

\* A second DELETE on a closed id has been answered.
C2Witness ==
    /\ last.route = "DELETE /mcp"
    /\ last.closedAtArrival
    /\ last.resp = "invalid_session"

\* C3: the identifiers of initialized transports are pairwise different,
\* each is one of the values drawn so far, and a live session is the entry
\* under its own identifier (no handshake took the key of another).
C3HandshakeIdsAreFresh ==
    /\ \A t, u \in TIds :
           (t # u /\ transports[t].initialized /\ transports[u].initialized)
               => transports[t].sessionId # transports[u].sessionId
    /\ \A t \in TIds :
           transports[t].initialized => transports[t].sessionId \in 1..uuidCount
    /\ \A t \in TIds :
           LiveStreamable(t) =>
               streamableTransports[transports[t].sessionId] = t

\* Two handshake handlers are suspended at once, each with its identifier.
C3Witness ==
    \E h, g \in Handlers :
        /\ h # g
        /\ h.route = "POST /mcp" /\ h.pc = "await_registered"
        /\ g.route = "POST /mcp" /\ g.pc = "await_registered"
        /\ LiveStreamable(h.t) /\ LiveStreamable(g.t)

\* C4: at most one legacy stream is open.
C4AtMostOneLegacyStream ==
    Cardinality({t \in TIds : LiveLegacy(t)}) <= 1

\* C5: a legacy transport that is not in the singleton slot has been
\* closed (every legacy transport is stored in the slot when it is made).
C5NoOpenLegacyOutsideSlot ==
    \A t \in TIds : (LiveLegacy(t) => t = sseTransport)

\* C6: a transport is an entry of the Session Table if and only if it is a
\* live streamable session; no legacy transport is an entry.
C6TableIffLiveStreamable ==
    \A t \in TIds :
        (\E k \in OwnKeys(streamableTransports) : streamableTransports[k] = t)
            <=> LiveStreamable(t)

\* One session is registered and another has been closed and removed.
C6Witness ==
    /\ \E t \in TIds : LiveStreamable(t)
    /\ \E t \in TIds : transports[t].kind = "streamable" /\ transports[t].closed

\* C7: the Protocol Engine connection of a session that stays live is not
\* taken over: no step rebinds the engine away from it.
C7EngineConnectionNotTakenOver ==
    [][\A t \in TIds :
          (Live(t) /\ Live(t)' /\ serverTransport = t)
              => serverTransport' = t]_vars

\* C8: an identifier a client has received names its session in the
\* Session Table for as long as that session is not closed.
C8ExposedIdIsRegistered ==
    \A s \in exposed :
        \/ IsClosedId(s)
        \/ /\ Lookup(streamableTransports, s) \in TIds
           /\ transports[Lookup(streamableTransports, s)].sessionId = s

\* A request that carried an identifier received from a handshake has been
\* given to the session.
C8Witness ==
    /\ last.hdr \in exposed
    /\ last.route = "POST /mcp"
    /\ last.resp = "forwarded"
    /\ transports[last.t].sessionId = last.hdr

\* C9: a POST /mcp whose session id names no entry of the table, or that
\* has no session id and no initialize body, is answered with
\* invalid-session and is given to no transport.
C9UnknownPostIsInvalidSession ==
    (/\ last.route = "POST /mcp"
     /\ \/ Truthy(last.hdr) /\ (~last.issuedAtArrival \/ last.closedAtArrival)
        \/ ~Truthy(last.hdr) /\ last.body # "initialize")
        => (last.resp = "invalid_session" /\ last.t = 0)

\* C10: a closed session has no entry in the table, and a GET or DELETE on
\* /mcp without a session id or with one that names no entry is answered
\* with invalid-session.
C10CloseAndRejectOnMcp ==
    /\ \A t \in TIds :
           (transports[t].kind = "streamable" /\ transports[t].closed)
               => Lookup(streamableTransports, transports[t].sessionId)
                      = Undefined
    /\ (/\ last.route \in {"GET /mcp", "DELETE /mcp"}
        /\ ~Truthy(last.hdr) \/ ~last.issuedAtArrival \/ last.closedAtArrival)
           => last.resp = "invalid_session"

\* C11: once its client has disconnected, a legacy session is in the
\* singleton slot no more, and a POST /sse is refused for want of a session
\* (outside a GET /sse that is replacing the slot's transport).
C11DisconnectClearsSlot ==
    (\A h \in Handlers : h.route # "GET /sse")
        => /\ sseTransport # Undefined => ~transports[sseTransport].closed
           /\ \A body \in Bodies :
                  PostSseAnswer(body).resp \in {"no_sse", "forwarded"}

C13UnknownIdsIndistinguishable ==
    (/\ last.route \in McpRoutes
     /\ Truthy(last.hdr)
     /\ ~last.issuedAtArrival \/ last.closedAtArrival)
        => <<last.resp, last.code>> = <<"invalid_session", InvalidSessionCode>>

\* C14: every refusal for an invalid or missing session, on /mcp (an
\* unknown id, or no id where one is needed) and on /sse (a POST with no
\* legacy session), is a JSON-RPC error with code -32000, never a 5xx and
\* never the internal-error code.
C14RejectionsCarryInvalidSessionCode ==
    LET unknownId == /\ last.route \in McpRoutes
                     /\ Truthy(last.hdr)
                     /\ ~last.issuedAtArrival \/ last.closedAtArrival
        missingId == /\ last.route \in McpRoutes
                     /\ ~Truthy(last.hdr)
                     /\ ~(last.route = "POST /mcp" /\ last.body = "initialize")
        noLegacy  == last.route = "POST /sse" /\ last.resp = "no_sse"
    IN  (unknownId \/ missingId \/ noLegacy)
            => /\ last.code = InvalidSessionCode
               /\ last.code # InternalErrorCode
               /\ last.resp \notin {"internal_error", "sse_internal_error"}

\* C15: an error thrown while a request is handled, on any route, does not
\* end the process: with the headers not yet sent the answer is the
\* internal-error response, with the headers sent nothing more is written,
\* and the server goes on serving.
C15ErrorsAreContained ==
    /\ Alive
    /\ last.fault = "thrown" =>
           /\ last.resp \in {"internal_error", "sse_internal_error"}
           /\ last.route \in McpRoutes => last.code = InternalErrorCode
    /\ last.fault = "thrown_after_headers" => last.resp = "dropped"
    /\ last.fault # "none" => ENABLED Health

\* An error after the headers of a legacy stream were sent was dropped,
\* and the stream's transport is still the one in the slot.
C15Witness ==
    /\ last.route = "GET /sse"
    /\ last.fault = "thrown_after_headers"
    /\ last.resp = "dropped"
    /\ sseTransport = last.t

\* C16: the Access-Control-Allow-Origin header follows the reference rule
\* for every allow-list and every request origin, absent and empty ones
\* (which carry no origin) among them.  With a list that has no "*" entry
\* the header is set if and only if the request's origin is an entry of
\* the list, and its value is that origin; with the wildcard (the list
\* unset, or "*" among its entries) the header is always set, to the
\* request's origin when it has one and to "*" when it has none.
C16OriginGuardIsReferenceRule ==
    last.stage = "answered" =>
        LET entries == IF last.req.env = Unset THEN {"*"}
                       ELSE {last.req.env[i].text : i \in DOMAIN last.req.env}
            origin  == last.req.origin
            hasOne  == origin # NoOrigin /\ origin # ""
            acao    == last.res.acao
        IN  IF "*" \in entries
            THEN acao = (IF hasOne THEN origin ELSE "*")
            ELSE /\ acao # NoAcao <=> (hasOne /\ origin \in entries)
                 /\ acao # NoAcao => acao = origin

\* With the allow-list [https://a.example], padded in the environment, the
\* request from https://a.example has got its origin echoed.
C16Witness ==
    /\ last.stage = "answered"
    /\ last.req.env = <<[text |-> "https://a.example", padded |-> TRUE]>>
    /\ last.req.origin = "https://a.example"
    /\ last.res.acao = "https://a.example"

\* C17: an OPTIONS request gets 204 with no body on every path, /health
\* among them, in the gateway and in the worker, and reaches no route
\* handler.  (Stated here of the worker.)
C17OptionsIsAlways204 ==
    (last.stage = "answered" /\ last.req.method = "OPTIONS")
        => (last.res.status = 204 /\ last.res.kind = "empty")

\* C18: GET /health is answered 200 {"status":"ok"} in every reachable
\* state and every transport mode (and by the worker), and leaves the
\* Session Table and the singleton slot as they were.
C18HealthIsAlwaysOk ==
    /\ [](/\ ENABLED Health
          /\ HealthAnswer.resp = "health_ok"
          /\ \A s \in WorkerSessionIds, b \in WorkerBodies :
                 fetch([path |-> "/health", method |-> "GET",
                        sessionId |-> s, body |-> b], randomUUID(uuidCount))
                     = [status |-> 200, kind |-> "json",
                        data |-> [status |-> "ok"]])
    /\ [][Health =>
              /\ last'.resp = "health_ok"
              /\ UNCHANGED <<streamableTransports, sseTransport, transports,
                             serverTransport>>]_vars

\* The health check was answered while a session was registered and a
\* handler was suspended.
C18Witness ==
    /\ last.route = "GET /health"
    /\ last.resp = "health_ok"
    /\ OwnKeys(streamableTransports) # {}
    /\ Handlers # {}

\* C19: the worker answers a POST /sse that has a sessionId and a JSON
\* message with one event: for initialize a result with protocolVersion,
\* for tools/list a result with an empty tools array, for anything else
\* the error -32601; each reply has the id of the request and exactly one
\* of result and error.  The stream of a GET /sse is closed right after
\* its endpoint event and its notification event.
C19WorkerReplies ==
    last.stage = "answered" =>
        LET req == last.req
            res == last.res
        IN  /\ (/\ req.path = "/sse"
                /\ req.method = "POST"
                /\ req.sessionId \notin {NoParam, EmptyParam}
                /\ req.body.json = "object")
                   => /\ res.status = 200
                      /\ Len(res.events) = 1
                      /\ LET msg == res.events[1].data IN
                         /\ Cardinality(DOMAIN msg \cap {"result", "error"}) = 1
                         /\ IF req.body.id = NoId THEN "id" \notin DOMAIN msg
                            ELSE "id" \in DOMAIN msg /\ msg.id = req.body.id
                         /\ req.body.method = "initialize" =>
                                /\ "result" \in DOMAIN msg
                                /\ "protocolVersion" \in DOMAIN msg.result
                         /\ req.body.method = "tools/list" =>
                                /\ "result" \in DOMAIN msg
                                /\ msg.result.tools = <<>>
                         /\ req.body.method
                                \notin {"initialize", "tools/list"} =>
                                /\ "error" \in DOMAIN msg
                                /\ msg.error.code = MethodNotFoundCode
            /\ (req.path = "/sse" /\ req.method = "GET")
                   => /\ Len(res.events) = 2
                      /\ res.events[1].event = "endpoint"
                      /\ res.events[2].method = "notifications/initialized"
                      /\ res.closed

\* The worker has answered tools/call, with id 2, by the error -32601.
C19Witness ==
    /\ last.stage = "answered"
    /\ last.req.path = "/sse"
    /\ last.req.method = "POST"
    /\ last.req.sessionId = BogusId
    /\ last.req.body.method = "tools/call"
    /\ last.req.body.id = 2
    /\ last.res.events[1].data.error.code = MethodNotFoundCode
    /\ last.res.events[1].data.id = 2

\* C20: a POST /mcp whose header names an entry of the Session Table is
\* given to the very transport registered under that id, not to another
\* and not to a new one, and the reuse path changes nothing: no entry is
\* added or removed and no transport is created or closed.
C20ReuseForwardsToRegistered ==
    [][(/\ last'.route = "POST /mcp"
        /\ last'.hdr \in OwnKeys(streamableTransports)
        /\ \E body \in Bodies, fault \in Faults :
               PostMcpReuse(last'.hdr, body, fault))
              => /\ last'.t = streamableTransports[last'.hdr]
                 /\ transports[last'.t].sessionId = last'.hdr
                 /\ UNCHANGED <<streamableTransports, transports,
                                sseTransport, serverTransport, uuidCount,
                                inflight>>]_vars

\* With two sessions registered, a message was given to the transport of
\* the second.
C20Witness ==
    /\ last.route = "POST /mcp"
    /\ last.resp = "forwarded"
    /\ last.hdr \in OwnKeys(streamableTransports)
    /\ last.t = streamableTransports[last.hdr]
    /\ \E k \in OwnKeys(streamableTransports) :
           k < last.hdr /\ streamableTransports[k] # last.t

\* C21: the replies to the messages of one session go out in the order in
\* which the messages arrived for that session, also while several of
\* them are in flight; across sessions there is no order.
C21RepliesInArrivalOrder ==
    \A t \in TIds :
        LET OfSession(m) == m[1] = t
            arrived      == SelectSeq(last.arrived, OfSession)
            responded    == SelectSeq(last.responded, OfSession)
        IN  /\ Len(responded) <= Len(arrived)
            /\ \A i \in 1..Len(responded) : responded[i] = arrived[i]

\* C22: every key of the Session Table maps to a transport whose own
\* session id is that key, and no transport is under two keys; an entry
\* is added only by the session-initialized callback of a transport that
\* the handshake branch created, under that transport's id, and an entry
\* is removed only when its own transport closes; no entry is overwritten.
C22TableKeysAreSessionIds ==
    /\ [](\A k \in OwnKeys(streamableTransports) :
             LET t == streamableTransports[k] IN
             /\ t \in TIds
             /\ transports[t].kind = "streamable"
             /\ transports[t].sessionId = k
             /\ \A j \in OwnKeys(streamableTransports) :
                    streamableTransports[j] = t => j = k)
    /\ [][streamableTransports' # streamableTransports =>
            \A k \in Uuids :
                LET old == streamableTransports[k]
                    new == streamableTransports'[k]
                IN  /\ (old = Undefined /\ new # Undefined) =>
                           /\ \E h \in Handlers :
                                  h.t = new /\ PostMcpInitialize(h)
                           /\ ~transports[new].initialized
                           /\ transports'[new].sessionId = k
                    /\ (old # Undefined /\ new # old) =>
                           /\ new = Undefined
                           /\ ~transports[old].closed
                           /\ transports'[old].closed]_vars

\* One session is registered under its id after another was registered
\* and then removed by its close.
C22Witness ==
    /\ \E k \in OwnKeys(streamableTransports) :
           transports[streamableTransports[k]].sessionId = k
    /\ \E t \in TIds :
           /\ transports[t].kind = "streamable"
           /\ transports[t].closed
           /\ transports[t].sessionId \in Uuids
           /\ transports[t].sessionId \notin OwnKeys(streamableTransports)

\* C23: a handshake POST /mcp that fails while the new transport is being
\* bound to the Protocol Engine leaves the Session Table as it was: the
\* half-created transport has no entry (and no id), and neither the
\* arrival of the request nor its failure removes or adds an entry.
C23FailedHandshakeLeavesTable ==
    /\ []((/\ last.route = "POST /mcp"
           /\ ~Truthy(last.hdr)
           /\ last.body = "initialize"
           /\ last.fault = "thrown")
              => /\ last.t \in TIds
                 /\ last.resp = "internal_error"
                 /\ transports[last.t].sessionId = Undefined
                 /\ \A k \in OwnKeys(streamableTransports) :
                        streamableTransports[k] # last.t)
    /\ [][(\/ /\ Len(transports') > Len(transports)
              /\ \E hdr \in HeaderValues, body \in Bodies :
                     PostMcpHandshake(hdr, body)
           \/ /\ last'.fault = "thrown"
              /\ \E h \in Handlers : PostMcpConnectFails(h))
              => UNCHANGED streamableTransports]_vars

\* A handshake has failed at connect while another session was, and
\* still is, registered.
C23Witness ==
    /\ last.route = "POST /mcp"
    /\ ~Truthy(last.hdr)
    /\ last.body = "initialize"
    /\ last.fault = "thrown"
    /\ \E k \in OwnKeys(streamableTransports) :
           /\ streamableTransports[k] # last.t
           /\ ~transports[streamableTransports[k]].closed

\* C24: the mode chosen at startup bounds the session state of the whole
\* run.  In mode "streamable" the singleton slot stays empty, no legacy
\* transport exists and no handler of /sse can run; in mode "sse" the
\* Session Table stays empty, no streamable transport exists and no
\* handler of /mcp can run; an option that is neither "sse" nor
\* "streamable" gives mode "both".
C24ModeBoundsState ==
    /\ transportType = "streamable" =>
           /\ sseTransport = Undefined
           /\ \A t \in TIds : transports[t].kind # "sse"
           /\ ~ENABLED NextSse
    /\ transportType = "sse" =>
           /\ OwnKeys(streamableTransports) = {}
           /\ \A t \in TIds : transports[t].kind # "streamable"
           /\ ~ENABLED NextMcp
    /\ \A o \in TransportOptions \ {"sse", "streamable"} :
           transportTypeFor(o) = "both"

\* In mode "streamable" a session is registered and has been used.
C24Witness ==
    /\ transportType = "streamable"
    /\ OwnKeys(streamableTransports) # {}
    /\ last.route = "POST /mcp"
    /\ last.resp = "forwarded"

\* C25: the worker keeps nothing between requests.  Its answer to a POST
\* /sse is the same whatever ids GET /sse has handed out before, and it
\* depends on the sessionId only through its presence: an id that no GET
\* /sse issued is answered like an issued one, and a missing or empty id
\* like any other missing or empty one.
C25WorkerIsStateless ==
    (/\ last.stage = "answered"
     /\ last.req.path = "/sse"
     /\ last.req.method = "POST")
        => /\ \A n \in 0..MaxTransports :
                  fetch(last.req, randomUUID(n)) = last.res
           /\ \A s \in WorkerSessionIds :
                  (s \in {NoParam, EmptyParam}
                       <=> last.req.sessionId \in {NoParam, EmptyParam})
                      => fetch([last.req EXCEPT !.sessionId = s],
                               randomUUID(uuidCount)) = last.res
           /\ transports = <<>>
           /\ OwnKeys(streamableTransports) = {}
           /\ sseTransport = Undefined

\* After a GET /sse handed out an id, a POST /sse with an id that was
\* never handed out has been answered with a reply.
C25Witness ==
    /\ last.stage = "answered"
    /\ last.req.path = "/sse"
    /\ last.req.method = "POST"
    /\ uuidCount > 0
    /\ last.req.sessionId \in Uuids
    /\ last.req.sessionId > uuidCount
    /\ last.req.body.method = "initialize"
    /\ last.res.status = 200

====
